---- MODULE Spec2Model ----
(***************************************************************************)
(* The /download relay of ytb-dw-vercel: the in-memory sliding-window rate *)
(* limiter (requestTracker) and the request handler, in its two variants:  *)
(* the express application (src/unnamed/part_000) and the serverless       *)
(* handler (src/api/download.js).                                          *)
(***************************************************************************)
EXTENDS Integers, Sequences, FiniteSets, TLC

\* ------------------------------------------------------------ constants
RATE_LIMIT_WINDOW == 60000
MAX_REQUESTS_PER_IP == 5
maxRetries == 2
TITLE_MAX == 50

\* ------------------------------------------------------------ bounds
\* HTTP exchanges that can be alive at once in the relay specification.
MaxInflight == 1
\* Longest run of one character in a generated title.
MaxRun == 51
\* Requests of one client in flight at once in the concurrency specification.
MaxConcurrent == 2

\* ------------------------------------------------------------ inputs
Variants == {"express", "serverless"}
\* Values of Date.now() (ms) the limiter is observed at: the two sides of the
\* 60 s boundary of a request made at 0, the last instant before it, and 61 s.
TimePoints == {0, 59999, 60000, 61000}
\* Network addresses; "" is an absent (undefined) value.
Addresses == {"A", "B"}
Methods == {"GET", "POST", "OPTIONS"}
\* req.query.url: absent, present but rejected by ytdl.validateURL, valid.
Urls == {"absent", "invalid", "valid"}
Reqs == 1..MaxInflight
ConcReqs == 1..MaxConcurrent

VARIABLES
    variant,         \* which deployment of the handler runs
    now,             \* Date.now()
    requestTracker,  \* Map clientIP -> array of timestamps
    req,             \* the HTTP exchanges
    solo,            \* per client, the tracker of a limiter that sees only that client
    admitLog,        \* per client, the times of its last admitted requests
    title,           \* info.videoDetails.title under derivation
    filename,        \* the file name derived from title
    again,           \* the file name derived from filename
    stage,           \* how far the derivation or the selection went
    formats,         \* info.formats of the video under format selection
    chosen           \* the formats the stream is created from: one, or none

vars == <<variant, now, requestTracker, req, solo, admitLog, title, filename, again, stage,
          formats, chosen>>

limiterVars == <<requestTracker, solo, admitLog>>
titleVars == <<title, filename, again, stage, formats, chosen>>

\* ------------------------------------------------------------ helpers
MapGet(m, k) == IF k \in DOMAIN m THEN m[k] ELSE << >>

MapSet(m, k, v) == [x \in (DOMAIN m) \cup {k} |-> IF x = k THEN v ELSE m[x]]

LastN(s, n) == IF Len(s) <= n THEN s ELSE SubSeq(s, Len(s) - n + 1, Len(s))

\* ------------------------------------------------------------ errors
\* An Error object as the catch block reads it: error.statusCode (0 when
\* undefined) and whether error.message includes each of the two phrases.
NoError == [statusCode |-> 0, unavailable |-> FALSE, age |-> FALSE, none |-> TRUE]

Errors == [statusCode : {0, 403, 410, 429}, unavailable : BOOLEAN, age : BOOLEAN,
           none : {FALSE}]

\* The TypeError res.setHeader throws for a value it refuses.
HeaderError == [statusCode |-> 0, unavailable |-> FALSE, age |-> FALSE, none |-> FALSE]

\* ------------------------------------------------------------ file name
\* Characters of a title: word characters, whitespace (a line feed included),
\* the hyphen, and characters the pattern /[^\w\s-]/gi removes.
WordChars == {"a", "Z", "7", "_", "v", "i", "d", "e", "o"}
SpaceChars == {" ", "\n"}
OtherChars == {"!", "é"}
Alphabet == {"a", "Z", "7", "_"} \cup SpaceChars \cup {"-"} \cup OtherChars

Permitted(c) == c \in WordChars \/ c \in SpaceChars \/ c = "-"

\* title.replace(/[^\w\s-]/gi, '')
Strip(t) == SelectSeq(t, Permitted)

\* s.substring(0, 50)
Substring(s, n) == IF Len(s) <= n THEN s ELSE SubSeq(s, 1, n)

Video == <<"v", "i", "d", "e", "o">>

\* Faulty variant: the 'video' fallback is forgotten.
DeriveFilename_NoFallback(t) == Substring(Strip(t), TITLE_MAX)

\* `${title || 'video'}` with title = ....replace(...).substring(0, 50)
DeriveFilename(t) ==
    LET s == Substring(Strip(t), TITLE_MAX)
    IN  IF s = << >> THEN Video ELSE s

\* res.setHeader refuses a value holding a control character.
HeaderValueOk(f) == \A i \in 1..Len(f) : f[i] # "\n"

\* ------------------------------------------------------------ rate limiter
\* const clientIP = req.ip || req.connection.remoteAddress            (express)
\*                = req.headers['x-forwarded-for'] || remoteAddress || 'unknown'
ClientIP(v, primary, remote) ==
    IF primary # "" THEN primary
    ELSE IF remote # "" THEN remote
    ELSE IF v = "serverless" THEN "unknown"
    ELSE ""

\* Faulty variant: fixed one-minute blocks instead of a sliding window.
RecentRequests_FixedBlock(clientRequests, t) ==
    SelectSeq(clientRequests,
              LAMBDA timestamp : timestamp \div RATE_LIMIT_WINDOW = t \div RATE_LIMIT_WINDOW)

\* clientRequests.filter(timestamp => now - timestamp < RATE_LIMIT_WINDOW)
RecentRequests(clientRequests, t) ==
    SelectSeq(clientRequests, LAMBDA timestamp : t - timestamp < RATE_LIMIT_WINDOW)

\* Faulty variant: the limit is tested with > instead of >=.
RateLimited_OffByOne(recentRequests) == Len(recentRequests) > MAX_REQUESTS_PER_IP

\* recentRequests.length >= MAX_REQUESTS_PER_IP
RateLimited(recentRequests) == Len(recentRequests) >= MAX_REQUESTS_PER_IP

\* Faulty variant: the sequence read before a suspension is not stored back.
Record_LostUpdate(tracker, clientIP, t) == MapSet(tracker, clientIP, <<t>>)

\* Faulty variant: every client is tracked under one key.
Record_SharedKey(tracker, clientIP, t) ==
    MapSet(tracker, "A", Append(RecentRequests(MapGet(tracker, "A"), t), t))

\* recentRequests.push(now); requestTracker.set(clientIP, recentRequests)
Record(tracker, clientIP, t) ==
    MapSet(tracker, clientIP, Append(RecentRequests(MapGet(tracker, clientIP), t), t))

\* Faulty variant: the url parameter is not checked for presence.
Prefix_NoMissingCheck(v, tracker, t, method, clientIP, url) ==
    IF method = "OPTIONS" THEN
        [status |-> 200, tracker |-> tracker, admit |-> "-", pc |-> "done"]
    ELSE IF method # "GET" THEN
        [status |-> IF v = "serverless" THEN 405 ELSE 404,
         tracker |-> tracker, admit |-> "-", pc |-> "done"]
    ELSE IF RateLimited(RecentRequests(MapGet(tracker, clientIP), t)) THEN
        [status |-> 429, tracker |-> tracker, admit |-> "no", pc |-> "done"]
    ELSE IF url = "invalid" THEN
        [status |-> 400, tracker |-> Record(tracker, clientIP, t),
         admit |-> "yes", pc |-> "done"]
    ELSE
        [status |-> 0, tracker |-> Record(tracker, clientIP, t),
         admit |-> "yes", pc |-> "delay"]

\* Faulty variant: ytdl.validateURL is not consulted.
Prefix_NoValidate(v, tracker, t, method, clientIP, url) ==
    IF method = "OPTIONS" THEN
        [status |-> 200, tracker |-> tracker, admit |-> "-", pc |-> "done"]
    ELSE IF method # "GET" THEN
        [status |-> IF v = "serverless" THEN 405 ELSE 404,
         tracker |-> tracker, admit |-> "-", pc |-> "done"]
    ELSE IF url = "absent" THEN
        [status |-> 400, tracker |-> tracker, admit |-> "-", pc |-> "done"]
    ELSE IF RateLimited(RecentRequests(MapGet(tracker, clientIP), t)) THEN
        [status |-> 429, tracker |-> tracker, admit |-> "no", pc |-> "done"]
    ELSE
        [status |-> 0, tracker |-> Record(tracker, clientIP, t),
         admit |-> "yes", pc |-> "delay"]

\* Faulty variant: the url is validated before the limiter counts the request.
Prefix_ValidateFirst(v, tracker, t, method, clientIP, url) ==
    IF method = "OPTIONS" THEN
        [status |-> 200, tracker |-> tracker, admit |-> "-", pc |-> "done"]
    ELSE IF method # "GET" THEN
        [status |-> IF v = "serverless" THEN 405 ELSE 404,
         tracker |-> tracker, admit |-> "-", pc |-> "done"]
    ELSE IF url = "absent" THEN
        [status |-> 400, tracker |-> tracker, admit |-> "-", pc |-> "done"]
    ELSE IF url = "invalid" THEN
        [status |-> 400, tracker |-> tracker, admit |-> "-", pc |-> "done"]
    ELSE IF RateLimited(RecentRequests(MapGet(tracker, clientIP), t)) THEN
        [status |-> 429, tracker |-> tracker, admit |-> "no", pc |-> "done"]
    ELSE
        [status |-> 0, tracker |-> Record(tracker, clientIP, t),
         admit |-> "yes", pc |-> "delay"]

\* Faulty variant: a rejected request is recorded too.
Prefix_RecordRejected(v, tracker, t, method, clientIP, url) ==
    IF method = "OPTIONS" THEN
        [status |-> 200, tracker |-> tracker, admit |-> "-", pc |-> "done"]
    ELSE IF method # "GET" THEN
        [status |-> IF v = "serverless" THEN 405 ELSE 404,
         tracker |-> tracker, admit |-> "-", pc |-> "done"]
    ELSE IF url = "absent" THEN
        [status |-> 400, tracker |-> tracker, admit |-> "-", pc |-> "done"]
    ELSE IF RateLimited(RecentRequests(MapGet(tracker, clientIP), t)) THEN
        [status |-> 429, tracker |-> Record(tracker, clientIP, t),
         admit |-> "no", pc |-> "done"]
    ELSE IF url = "invalid" THEN
        [status |-> 400, tracker |-> Record(tracker, clientIP, t),
         admit |-> "yes", pc |-> "done"]
    ELSE
        [status |-> 0, tracker |-> Record(tracker, clientIP, t),
         admit |-> "yes", pc |-> "delay"]

\* The handler up to its first suspension point or return: the response it
\* sends (status 0: none yet), the tracker it leaves and where it goes on.
Prefix(v, tracker, t, method, clientIP, url) ==
    IF method = "OPTIONS" THEN
        [status |-> 200, tracker |-> tracker, admit |-> "-", pc |-> "done"]
    ELSE IF method # "GET" THEN
        [status |-> IF v = "serverless" THEN 405 ELSE 404,
         tracker |-> tracker, admit |-> "-", pc |-> "done"]
    ELSE IF url = "absent" THEN
        [status |-> 400, tracker |-> tracker, admit |-> "-", pc |-> "done"]
    ELSE IF RateLimited(RecentRequests(MapGet(tracker, clientIP), t)) THEN
        [status |-> 429, tracker |-> tracker, admit |-> "no", pc |-> "done"]
    ELSE IF url = "invalid" THEN
        [status |-> 400, tracker |-> Record(tracker, clientIP, t),
         admit |-> "yes", pc |-> "done"]
    ELSE
        [status |-> 0, tracker |-> Record(tracker, clientIP, t),
         admit |-> "yes", pc |-> "delay"]

\* The reference limiter of one client alone: its own sequence, nobody else's.
SoloStep(s, t) ==
    LET recent == SelectSeq(s, LAMBDA x : t - x < RATE_LIMIT_WINDOW)
    IN  IF Len(recent) >= MAX_REQUESTS_PER_IP THEN s ELSE Append(recent, t)

\* ------------------------------------------------------------ resolution
\* Faulty variant: the attempts are numbered from zero.
BackoffDelay_ZeroBased(v, statusCode, retryCount) ==
    IF v = "express"
    THEN IF statusCode = 429 THEN 5000 * (retryCount - 1) ELSE 2000 * (retryCount - 1)
    ELSE IF statusCode = 429 THEN 3000 * (retryCount - 1) ELSE 1500 * (retryCount - 1)

\* Faulty variant: the serverless handler backs off as the express one does.
BackoffDelay_ExpressOnly(v, statusCode, retryCount) ==
    IF statusCode = 429 THEN 5000 * retryCount ELSE 2000 * retryCount

\* const delay = error.statusCode === 429 ? 5000 * retryCount : 2000 * retryCount
\* (3000 and 1500 in the serverless handler)
BackoffDelay(v, statusCode, retryCount) ==
    IF v = "express"
    THEN IF statusCode = 429 THEN 5000 * retryCount ELSE 2000 * retryCount
    ELSE IF statusCode = 429 THEN 3000 * retryCount ELSE 1500 * retryCount

\* Faulty variant: the age restriction is tested before unavailability.
MapError_AgeFirst(error) ==
    IF error.age THEN 403
    ELSE IF error.unavailable \/ error.statusCode = 410 THEN 404
    ELSE IF error.statusCode = 403 THEN 403
    ELSE IF error.statusCode = 429 THEN 429
    ELSE 500

\* The if / else-if chain of the catch block.
MapError(error) ==
    IF error.unavailable \/ error.statusCode = 410 THEN 404
    ELSE IF error.age THEN 403
    ELSE IF error.statusCode = 403 THEN 403
    ELSE IF error.statusCode = 429 THEN 429
    ELSE 500

\* ------------------------------------------------------------ the exchange
IdleReq ==
    [pc |-> "idle", key |-> "", method |-> "GET", url |-> "-",
     admit |-> "-", status |-> 0, headersSent |-> FALSE, sends |-> 0,
     retryCount |-> 0, delays |-> 0, getInfoCalls |-> 0,
     error |-> NoError, backoff |-> 0,
     name |-> << >>, stream |-> "none", destroyed |-> FALSE, destroyCalls |-> 0,
     errorListener |-> FALSE, closeListener |-> FALSE,
     closed |-> FALSE, uncaught |-> FALSE]

\* catch (error) { if (!res.headersSent) { ... res.status(...).send(...) } }
Catch(q, error) ==
    IF q.headersSent
    THEN [q EXCEPT !.pc = "done", !.error = error]
    ELSE [q EXCEPT !.pc = "done", !.error = error,
                   !.status = MapError(error), !.headersSent = TRUE,
                   !.sends = @ + 1]

\* The handler from the resolved info to the end of the try block: the file
\* name, the headers, the stream, its listeners, the pipe, the close listener.
StartStream(q, t) ==
    LET f == DeriveFilename(t)
    IN  IF ~HeaderValueOk(f)
        THEN Catch([q EXCEPT !.name = f], HeaderError)
        ELSE [q EXCEPT !.pc = "streaming", !.name = f, !.stream = "open",
                       !.errorListener = TRUE, !.closeListener = TRUE]

\* Faulty variant: the listener answers 500 without looking at res.headersSent.
OnStreamError_NoGuard(q) ==
    IF ~q.errorListener THEN [q EXCEPT !.uncaught = TRUE]
    ELSE [q EXCEPT !.status = 500, !.headersSent = TRUE, !.pc = "done",
                   !.sends = @ + 1]

\* Faulty variant: the listener only logs.
OnStreamError_LogOnly(q) ==
    IF ~q.errorListener THEN [q EXCEPT !.uncaught = TRUE] ELSE q

\* videoStream.on('error', ...): if (!res.headersSent) res.status(500).send(...)
OnStreamError(q) ==
    IF ~q.errorListener THEN [q EXCEPT !.uncaught = TRUE]
    ELSE IF q.headersSent THEN q
    ELSE [q EXCEPT !.status = 500, !.headersSent = TRUE, !.pc = "done",
                   !.sends = @ + 1]

\* Faulty variant: destroy() is called without looking at videoStream.destroyed.
OnClose_Unguarded(q) ==
    IF q.closeListener
    THEN [q EXCEPT !.destroyed = TRUE, !.destroyCalls = @ + 1]
    ELSE q

\* req.on('close', ...): if (videoStream && !videoStream.destroyed) destroy()
OnClose(q) ==
    IF q.closeListener /\ ~q.destroyed
    THEN [q EXCEPT !.destroyed = TRUE, !.destroyCalls = @ + 1]
    ELSE q

\* ------------------------------------------------------------ actions
Keys == Addresses \cup {"unknown", ""}

Init ==
    /\ variant \in Variants
    /\ now = 0
    /\ requestTracker = << >>
    /\ req = [r \in Reqs |-> IdleReq]
    /\ solo = [k \in Keys |-> << >>]
    /\ admitLog = [k \in Keys |-> << >>]
    /\ title = << >>
    /\ filename = << >>
    /\ again = << >>
    /\ stage = 0
    /\ formats = {}
    /\ chosen = {}

\* A request arrives and the handler runs to its first await or return.
Handle(r, method, primary, remote, url) ==
    LET clientIP == ClientIP(variant, primary, remote)
        out == Prefix(variant, requestTracker, now, method, clientIP, url)
    IN  /\ req[r].pc = "idle"
        /\ requestTracker' = out.tracker
        /\ req' = [req EXCEPT ![r] =
                [IdleReq EXCEPT !.pc = out.pc, !.key = clientIP, !.method = method,
                                !.url = IF method = "GET" THEN url ELSE "-",
                                !.admit = out.admit,
                                !.status = out.status,
                                !.headersSent = (out.status # 0),
                                !.sends = IF out.status # 0 THEN 1 ELSE 0,
                                !.delays = IF out.pc = "delay" THEN 1 ELSE 0]]
        /\ solo' = IF out.admit = "-" THEN solo
                   ELSE [solo EXCEPT ![clientIP] = SoloStep(@, now)]
        /\ admitLog' = IF out.admit = "yes"
                       THEN [admitLog EXCEPT ![clientIP] =
                                LastN(Append(@, now), MAX_REQUESTS_PER_IP)]
                       ELSE admitLog
        /\ UNCHANGED <<variant, now, titleVars>>

\* Time passes.
Tick(t) ==
    /\ t > now
    /\ now' = t
    /\ UNCHANGED <<variant, req, limiterVars, titleVars>>

\* Faulty variant: the cleanup empties the map.
Swept_Clear(tracker, t) == << >>

\* setInterval cleanup of the long-lived express process.
Swept(tracker, t) ==
    LET keep == {ip \in DOMAIN tracker : Len(RecentRequests(tracker[ip], t)) # 0}
    IN  [ip \in keep |-> RecentRequests(tracker[ip], t)]

Sweep ==
    /\ variant = "express"
    /\ requestTracker' = Swept(requestTracker, now)
    /\ requestTracker' # requestTracker
    /\ UNCHANGED <<variant, now, req, solo, admitLog, titleVars>>

\* The randomized pre-fetch delay is over: ytdl.getInfo is called.
DelayElapsed(r) ==
    /\ req[r].pc = "delay"
    /\ req' = [req EXCEPT ![r].pc = "getInfo", ![r].getInfoCalls = @ + 1]
    /\ UNCHANGED <<variant, now, limiterVars, titleVars>>

\* ytdl.getInfo resolves: the loop breaks and the stream is set up.
GetInfoOk(r, t) ==
    /\ req[r].pc = "getInfo"
    /\ req' = [req EXCEPT ![r] = StartStream(@, t)]
    /\ UNCHANGED <<variant, now, limiterVars, titleVars>>

\* Faulty variant: the loop gives up one failure too late.
Retry_OneMore(v, q, error) ==
    LET n == q.retryCount + 1
    IN  IF n > maxRetries
        THEN Catch([q EXCEPT !.retryCount = n], error)
        ELSE [q EXCEPT !.retryCount = n, !.error = error, !.pc = "backoff",
                       !.backoff = BackoffDelay(v, error.statusCode, n)]

\* ytdl.getInfo rejects: retryCount++, then rethrow or back off.
Retry(v, q, error) ==
    LET n == q.retryCount + 1
    IN  IF n >= maxRetries
        THEN Catch([q EXCEPT !.retryCount = n], error)
        ELSE [q EXCEPT !.retryCount = n, !.error = error, !.pc = "backoff",
                       !.backoff = BackoffDelay(v, error.statusCode, n)]

GetInfoFail(r, error) ==
    /\ req[r].pc = "getInfo"
    /\ req' = [req EXCEPT ![r] = Retry(variant, @, error)]
    /\ UNCHANGED <<variant, now, limiterVars, titleVars>>

\* The backoff is over: the loop starts the next attempt with its delay.
BackoffElapsed(r) ==
    /\ req[r].pc = "backoff"
    /\ req' = [req EXCEPT ![r].pc = "delay", ![r].delays = @ + 1,
                          ![r].error = NoError, ![r].backoff = 0]
    /\ UNCHANGED <<variant, now, limiterVars, titleVars>>

StreamLive(q) == q.pc = "streaming" /\ q.stream = "open" /\ ~q.destroyed

\* The piped stream writes its first bytes: the headers go out with 200.
StreamData(r) ==
    /\ StreamLive(req[r])
    /\ ~req[r].headersSent
    /\ req' = [req EXCEPT ![r].headersSent = TRUE, ![r].status = 200,
                          ![r].sends = @ + 1]
    /\ UNCHANGED <<variant, now, limiterVars, titleVars>>

\* The stream emits 'error'; whether it is destroyed then is the library's.
StreamError(r, destroyed) ==
    /\ StreamLive(req[r])
    /\ req' = [req EXCEPT ![r] =
                OnStreamError([@ EXCEPT !.stream = "errored", !.destroyed = destroyed])]
    /\ UNCHANGED <<variant, now, limiterVars, titleVars>>

\* The stream ends: the pipe ends the response.
StreamEnd(r, destroyed) ==
    /\ StreamLive(req[r])
    /\ req' = [req EXCEPT ![r].stream = "ended", ![r].destroyed = destroyed,
                          ![r].pc = "done", ![r].headersSent = TRUE,
                          ![r].status = IF req[r].headersSent THEN @ ELSE 200,
                          ![r].sends = IF req[r].headersSent THEN @ ELSE @ + 1]
    /\ UNCHANGED <<variant, now, limiterVars, titleVars>>

\* The client connection closes: 'close' is emitted to the listeners there are.
ClientClose(r) ==
    /\ req[r].pc # "idle"
    /\ ~req[r].closed
    /\ req' = [req EXCEPT ![r] = OnClose([@ EXCEPT !.closed = TRUE])]
    /\ UNCHANGED <<variant, now, limiterVars, titleVars>>

\* The exchange is over and holds no open stream; its slot serves the next one.
Recycle(r) ==
    /\ \/ req[r].pc = "done"
       \/ /\ req[r].pc = "streaming"
          /\ req[r].closed
          /\ req[r].stream # "open" \/ req[r].destroyed
    /\ req' = [req EXCEPT ![r] = IdleReq]
    /\ UNCHANGED <<variant, now, limiterVars, titleVars>>

\* ------------------------------------------------------------ the relay
\* Titles the upstream resolves in the relay specification.
RelayTitles == {<< >>, <<"a", "!", " ", "-">>, <<"!", "é">>, <<"a", "\n">>}

Next ==
    \/ \E r \in Reqs, m \in Methods, u \in Urls : Handle(r, m, "", "", u)
    \/ \E r \in Reqs : DelayElapsed(r)
    \/ \E r \in Reqs, t \in RelayTitles : GetInfoOk(r, t)
    \/ \E r \in Reqs, e \in Errors : GetInfoFail(r, e)
    \/ \E r \in Reqs : BackoffElapsed(r)
    \/ \E r \in Reqs : StreamData(r)
    \/ \E r \in Reqs, d \in BOOLEAN : StreamError(r, d)
    \/ \E r \in Reqs, d \in BOOLEAN : StreamEnd(r, d)
    \/ \E r \in Reqs : ClientClose(r)
    \/ \E r \in Reqs : Recycle(r)

Spec == Init /\ [][Next]_vars

\* The relay with what the event loop guarantees: a timer that was set fires,
\* and ytdl.getInfo, called with a request timeout, settles. Nothing is assumed
\* of the upstream stream or of the client.
GetInfoSettles(r) ==
    \/ \E t \in RelayTitles : GetInfoOk(r, t)
    \/ \E e \in Errors : GetInfoFail(r, e)

SpecFair ==
    /\ Init
    /\ [][Next]_vars
    /\ \A r \in Reqs : WF_vars(DelayElapsed(r))
    /\ \A r \in Reqs : WF_vars(BackoffElapsed(r))
    /\ \A r \in Reqs : WF_vars(GetInfoSettles(r))

\* ------------------------------------------------------------ the limiter
\* The limiter over time and two clients; one exchange at a time, which the
\* upstream serves without failure.
NextLimiter ==
    \/ \E m \in Methods, p \in {"A", ""}, u \in Urls : Handle(1, m, p, "B", u)
    \/ \E t \in TimePoints : Tick(t)
    \/ Sweep
    \/ DelayElapsed(1)
    \/ GetInfoOk(1, <<"a">>)
    \/ StreamEnd(1, TRUE)
    \/ Recycle(1)

SpecLimiter == Init /\ [][NextLimiter]_vars

\* ------------------------------------------------------------ formats
\* A format of info.formats as the selection reads it: hasVideo, hasAudio,
\* container, and its place in the library's quality order (the video height,
\* or the audio bitrate of a format without video).
Format(itag, hasVideo, hasAudio, container, height, bitrate) ==
    [itag |-> itag, hasVideo |-> hasVideo, hasAudio |-> hasAudio,
     container |-> container, height |-> height, bitrate |-> bitrate]

\* The formats a video may come with: combined mp4 at two heights, combined
\* webm, video-only mp4 and webm, audio-only mp4.
FormatPool ==
    { Format(18, TRUE, TRUE, "mp4", 360, 96),
      Format(22, TRUE, TRUE, "mp4", 720, 192),
      Format(43, TRUE, TRUE, "webm", 1080, 128),
      Format(137, TRUE, FALSE, "mp4", 2160, 0),
      Format(248, TRUE, FALSE, "webm", 1440, 0),
      Format(140, FALSE, TRUE, "mp4", 0, 128) }

\* ytdl.filterFormats(info.formats, 'videoandaudio')
Combined(f) == f.hasVideo /\ f.hasAudio

FilterFormats(fs) == {f \in fs : Combined(f)}

\* filter: format => format.hasVideo && format.hasAudio && format.container === 'mp4'
OptionsFilter(f) == f.hasVideo /\ f.hasAudio /\ f.container = "mp4"

\* The library's order of formats: video before audio-only, then the height,
\* then the audio bitrate.
Rank(f) == (IF f.hasVideo THEN 100000 ELSE 0) + 10 * f.height + f.bitrate \div 100

Best(fs) == IF fs = {} THEN {}
            ELSE {CHOOSE f \in fs : \A g \in fs : Rank(g) <= Rank(f)}

\* The library's choice inside ytdl(url, options): the filter of the options
\* when there is one, then the quality; no format left is the error
\* 'No such format found', emitted on the stream.
ChooseFormat(fs, quality, filtered) ==
    LET kept == IF filtered THEN {f \in fs : OptionsFilter(f)} ELSE fs
    IN  IF quality = "highestvideo" THEN Best({f \in kept : f.hasVideo})
        ELSE Best(kept)

\* The options of the handler and its fallback:
\* if (formats.length === 0) { options.quality = 'highest'; delete options.filter }
SelectFormat(fs) ==
    IF FilterFormats(fs) = {}
    THEN ChooseFormat(fs, "highest", FALSE)
    ELSE ChooseFormat(fs, "highestvideo", TRUE)

InitFormat ==
    /\ variant \in Variants
    /\ now = 0
    /\ requestTracker = << >>
    /\ req = [r \in Reqs |-> IdleReq]
    /\ solo = [k \in Keys |-> << >>]
    /\ admitLog = [k \in Keys |-> << >>]
    /\ title = << >>
    /\ filename = << >>
    /\ again = << >>
    /\ stage = 0
    /\ formats \in SUBSET FormatPool
    /\ chosen = {}

\* The stream is created: the library chooses the format under the options.
Select ==
    /\ stage = 0
    /\ chosen' = SelectFormat(formats)
    /\ stage' = 1
    /\ UNCHANGED <<variant, now, req, limiterVars, title, filename, again, formats>>

NextFormat == Select

SpecFormat == InitFormat /\ [][NextFormat]_vars

\* ------------------------------------------------------------ concurrency
\* Several requests of one client in flight, interleaved at their suspension
\* points: the pre-fetch delay, ytdl.getInfo, the retry backoff.
InitConcurrent ==
    /\ variant \in Variants
    /\ now = 0
    /\ requestTracker = << >>
    /\ req = [r \in ConcReqs |-> IdleReq]
    /\ solo = [k \in Keys |-> << >>]
    /\ admitLog = [k \in Keys |-> << >>]
    /\ title = << >>
    /\ filename = << >>
    /\ again = << >>
    /\ stage = 0
    /\ formats = {}
    /\ chosen = {}

\* The upstream error of the concurrency specification: a plain 429.
UpstreamBusy == [statusCode |-> 429, unavailable |-> FALSE, age |-> FALSE, none |-> FALSE]

NextConcurrent ==
    \/ \E r \in ConcReqs, u \in {"invalid", "valid"} : Handle(r, "GET", "A", "", u)
    \/ \E t \in TimePoints : Tick(t)
    \/ \E r \in ConcReqs : DelayElapsed(r)
    \/ \E r \in ConcReqs : GetInfoFail(r, UpstreamBusy)
    \/ \E r \in ConcReqs : BackoffElapsed(r)
    \/ \E r \in ConcReqs : Recycle(r)

SpecConcurrent == InitConcurrent /\ [][NextConcurrent]_vars

\* ------------------------------------------------------------ the file name
\* Titles: two runs of one character each, up to and past the 50 characters.
RunLens == {0, 1, TITLE_MAX - 1, TITLE_MAX, MaxRun}

Run(c, n) == [i \in 1..n |-> c]

Titles == {Run(c, n) \o Run(d, m) : c \in Alphabet, d \in Alphabet, n \in RunLens, m \in RunLens}

InitTitle ==
    /\ variant = "express"
    /\ now = 0
    /\ requestTracker = << >>
    /\ req = [r \in Reqs |-> IdleReq]
    /\ solo = [k \in Keys |-> << >>]
    /\ admitLog = [k \in Keys |-> << >>]
    /\ title \in Titles
    /\ filename = << >>
    /\ again = << >>
    /\ stage = 0
    /\ formats = {}
    /\ chosen = {}

\* The file name is derived from the title.
Derive ==
    /\ stage = 0
    /\ filename' = DeriveFilename(title)
    /\ stage' = 1
    /\ UNCHANGED <<variant, now, req, limiterVars, title, again, formats, chosen>>

\* The file name is derived again, from the derived file name.
DeriveAgain ==
    /\ stage = 1
    /\ again' = DeriveFilename(filename)
    /\ stage' = 2
    /\ UNCHANGED <<variant, now, req, limiterVars, title, filename, formats, chosen>>

NextTitle == Derive \/ DeriveAgain

SpecTitle == InitTitle /\ [][NextTitle]_vars

\* ====================================================================
\* Properties
\* ====================================================================
\* The handler ran for a request arriving in slot r in this step.
Arrived(r) == req[r].pc = "idle" /\ req'[r].pc # "idle"

\* How many of the client's last admitted requests are less than 60 s old.
AdmittedInWindow(k) ==
    Cardinality({i \in 1..Len(admitLog[k]) : now - admitLog[k][i] < RATE_LIMIT_WINDOW})

\* C1: for every client and every request carrying a url parameter, a request
\* that is at most the 5th admitted one inside the trailing 60 s is admitted,
\* one that would be the 6th is rejected with 429, and a request made 61 s or
\* more after the 5th most recent admitted one is admitted: the window slides
\* with each timestamp.
C1_SlidingWindow ==
    [][\A r \in Reqs :
          (Arrived(r) /\ req'[r].admit # "-") =>
              LET k == req'[r].key
              IN  /\ AdmittedInWindow(k) < MAX_REQUESTS_PER_IP
                        => req'[r].admit = "yes" /\ req'[r].status # 429
                  /\ AdmittedInWindow(k) >= MAX_REQUESTS_PER_IP
                        => req'[r].admit = "no" /\ req'[r].status = 429
                  /\ (Len(admitLog[k]) = MAX_REQUESTS_PER_IP
                      /\ now - admitLog[k][1] >= 61000)
                        => req'[r].admit = "yes"]_vars

\* A request admitted at 61 s while four admitted ones are still inside the
\* window: the first of the batch, made at 0, has left it.
C1_Witness ==
    \E r \in Reqs :
        /\ req[r].admit = "yes"
        /\ now = 61000
        /\ Len(admitLog[req[r].key]) = MAX_REQUESTS_PER_IP
        /\ admitLog[req[r].key][MAX_REQUESTS_PER_IP] = 61000
        /\ admitLog[req[r].key][1] = 59999

\* C2: a GET /download request without url parameter ends with a 4xx response
\* and neither ytdl.getInfo nor ytdl() is called for it, whatever the limiter
\* holds.
C2_MissingUrlClientError ==
    \A r \in Reqs :
        (req[r].method = "GET" /\ req[r].url = "absent") =>
            /\ req[r].pc = "done"
            /\ req[r].status \in 400..499
            /\ req[r].getInfoCalls = 0
            /\ req[r].stream = "none"

\* A request without url answered 400 while its client is rate limited.
C2_Witness ==
    \E r \in Reqs :
        /\ req[r].url = "absent"
        /\ req[r].status = 400
        /\ RateLimited(RecentRequests(MapGet(requestTracker, req[r].key), now))

\* C3: a request whose url fails ytdl.validateURL ends with a 4xx response and
\* never reaches resolution: no pre-fetch delay, no ytdl.getInfo, no stream.
C3_InvalidUrlClientError ==
    \A r \in Reqs :
        req[r].url = "invalid" =>
            /\ req[r].pc = "done"
            /\ req[r].status \in 400..499
            /\ req[r].delays = 0
            /\ req[r].getInfoCalls = 0
            /\ req[r].stream = "none"

\* A request with an invalid url that met a full window: rejected with 429.
C3_Witness ==
    \E r \in Reqs :
        /\ req[r].url = "invalid"
        /\ req[r].status = 429
        /\ req[r].admit = "no"

\* Whether the limiter of client k alone admits a request at time t.
SoloAdmits(s, t) ==
    Len(SelectSeq(s, LAMBDA x : t - x < RATE_LIMIT_WINDOW)) < MAX_REQUESTS_PER_IP

\* C4: a request of one client leaves every other client's entry of
\* requestTracker as it was, and each request is admitted exactly when the
\* limiter that sees only its own client's requests admits it.
C4_ClientsIndependent ==
    [][\A r \in Reqs :
          Arrived(r) =>
              LET k == req'[r].key
              IN  /\ \A j \in Keys \ {k} :
                        /\ (j \in DOMAIN requestTracker') = (j \in DOMAIN requestTracker)
                        /\ MapGet(requestTracker', j) = MapGet(requestTracker, j)
                  /\ req'[r].admit # "-" =>
                        ((req'[r].admit = "yes") = SoloAdmits(solo[k], now))]_vars

\* Client B is admitted while client A is rate limited.
C4_Witness ==
    \E r \in Reqs :
        /\ req[r].key = "B"
        /\ req[r].admit = "yes"
        /\ RateLimited(RecentRequests(MapGet(requestTracker, "A"), now))
        /\ Len(MapGet(requestTracker, "B")) = 1

\* C5: when the client connection closes while the exchange is streaming and
\* the stream has not ended, the close listener leaves the stream destroyed,
\* calling videoStream.destroy() exactly when the stream was not destroyed
\* yet, and no error goes uncaught.
C5_CloseDestroysStream ==
    [][\A r \in Reqs :
          /\ ~req'[r].uncaught
          /\ (/\ req[r].pc = "streaming"
              /\ req[r].stream # "ended"
              /\ ~req[r].closed
              /\ req'[r].closed)
             => /\ req'[r].destroyed
                /\ req'[r].destroyCalls =
                      req[r].destroyCalls + (IF req[r].destroyed THEN 0 ELSE 1)]_vars

\* The client closed in mid-stream, after the first bytes, and the open
\* stream was destroyed by one call.
C5_Witness ==
    \E r \in Reqs :
        /\ req[r].pc = "streaming"
        /\ req[r].stream = "open"
        /\ req[r].headersSent
        /\ req[r].closed
        /\ req[r].destroyed
        /\ req[r].destroyCalls = 1

\* An upstream rate-limit error: status 429 and the message of the status.
RateLimitError(e) == e.statusCode = 429 /\ ~e.unavailable /\ ~e.age /\ ~e.none

\* C6: after a ytdl.getInfo failure with upstream status 429 the backoff is
\* longer than the one before it (none before the first retry), and when the
\* retry budget is exhausted by such an error the response is 429.
C6_Backoff429 ==
    \A r \in Reqs :
        /\ (req[r].pc = "backoff" /\ req[r].error.statusCode = 429) =>
              req[r].backoff >
                  (IF req[r].retryCount = 1 THEN 0
                   ELSE BackoffDelay(variant, 429, req[r].retryCount - 1))
        /\ (/\ req[r].pc = "done"
            /\ req[r].retryCount >= maxRetries
            /\ RateLimitError(req[r].error))
              => req[r].status = 429

\* Both attempts made, the last one failed with 429, the client got 429.
C6_Witness ==
    \E r \in Reqs :
        /\ req[r].pc = "done"
        /\ req[r].getInfoCalls = maxRetries
        /\ req[r].retryCount = maxRetries
        /\ RateLimitError(req[r].error)
        /\ req[r].status = 429

\* C7: the derived file name is never empty, has at most 50 characters, holds
\* only word characters, whitespace and hyphens, and deriving a file name from
\* it gives it back.
C7_FilenameTotalIdempotent ==
    /\ stage >= 1 =>
          /\ filename # << >>
          /\ Len(filename) <= TITLE_MAX
          /\ \A i \in 1..Len(filename) : Permitted(filename[i])
    /\ stage = 2 => again = filename

\* A title that is cut: more than 50 permitted characters among removed ones.
C7_Witness ==
    /\ stage = 2
    /\ Len(Strip(title)) > TITLE_MAX
    /\ Len(Strip(title)) < Len(title)
    /\ Len(filename) = TITLE_MAX

\* The exchange ended in the catch block, with the error it caught.
Caught(q) == q.pc = "done" /\ ~q.error.none /\ q.stream = "none"

\* C8: an error caught before the headers are sent is answered 404 when its
\* message says 'Video unavailable' or its status is 410; otherwise 403 when
\* its message says 'age-restricted' or its status is 403; otherwise 429 when
\* its status is 429; otherwise 500: one status per error, unavailable first.
C8_ErrorTaxonomy ==
    \A r \in Reqs :
        Caught(req[r]) =>
            LET e    == req[r].error
                gone == e.unavailable \/ e.statusCode = 410
                deny == e.age \/ e.statusCode = 403
                rate == e.statusCode = 429
            IN  /\ req[r].status \in {403, 404, 429, 500}
                /\ (req[r].status = 404) = gone
                /\ (req[r].status = 403) = (~gone /\ deny)
                /\ (req[r].status = 429) = (~gone /\ ~deny /\ rate)
                /\ (req[r].status = 500) = (~gone /\ ~deny /\ ~rate)

\* An upstream 403 whose message says both phrases: answered 404.
C8_Witness ==
    \E r \in Reqs :
        /\ Caught(req[r])
        /\ req[r].error.statusCode = 403
        /\ req[r].error.age
        /\ req[r].error.unavailable
        /\ req[r].status = 404

C10_RejectedNotRecorded ==
    [][\A r \in Reqs :
          (Arrived(r) /\ req'[r].admit # "-") =>
              LET stored == MapGet(requestTracker, req'[r].key)
              IN  /\ req'[r].admit = "no" => requestTracker' = requestTracker
                  /\ (req'[r].admit = "no") =
                        (/\ Len(stored) >= MAX_REQUESTS_PER_IP
                         /\ now - stored[1] < RATE_LIMIT_WINDOW)]_vars

\* A request rejected in the last millisecond of the lock-out.
C10_Witness ==
    \E r \in Reqs :
        /\ req[r].admit = "no"
        /\ req[r].status = 429
        /\ now = 59999
        /\ MapGet(requestTracker, req[r].key)[1] = 0

\* No step but the arrival of a request or the sweep touches requestTracker.
Arrival == \E r \in DOMAIN req : Arrived(r)

\* C11: with requests of one client suspended in their delay, in getInfo and
\* in their backoff, the limiter step is one step of the handler: the client's
\* sequence holds every admitted timestamp of the last 60 s (none is lost), a
\* request is admitted only while fewer than 5 were admitted in the last 60 s,
\* and the steps of the suspended requests leave requestTracker alone.
C11_NoLostUpdate ==
    [][/\ \A k \in Keys :
              RecentRequests(MapGet(requestTracker', k), now')
                  = RecentRequests(admitLog'[k], now')
       /\ \A r \in DOMAIN req :
              (Arrived(r) /\ req'[r].admit = "yes") =>
                  AdmittedInWindow(req'[r].key) < MAX_REQUESTS_PER_IP
       /\ ~Arrival => requestTracker' = requestTracker]_vars

\* Two requests of client A suspended, one backing off and one in getInfo,
\* while the client's window is full.
C11_Witness ==
    /\ 2 \in DOMAIN req
    /\ req[1].pc = "backoff"
    /\ req[2].pc = "getInfo"
    /\ req[1].key = "A"
    /\ req[2].key = "A"
    /\ Len(RecentRequests(MapGet(requestTracker, "A"), now)) = MAX_REQUESTS_PER_IP
    /\ now = 59999

\* The request is inside the while loop of the resolution.
InLoop(r) == req[r].pc \in {"delay", "getInfo", "backoff"}

\* C12: ytdl.getInfo is called at most maxRetries = 2 times per request; the
\* loop always terminates, with the info resolved or an error thrown; and when
\* the last allowed attempt fails, the error that reaches the catch block and
\* its status mapping is the error of that attempt.
C12_BoundedResolution ==
    /\ [](\A r \in Reqs : /\ req[r].getInfoCalls <= maxRetries
                          /\ req[r].retryCount <= maxRetries
                          /\ InLoop(r) => req[r].retryCount < maxRetries)
    /\ [][\A r \in Reqs, e \in Errors :
              (GetInfoFail(r, e) /\ req[r].getInfoCalls = maxRetries) =>
                  /\ req'[r].pc = "done"
                  /\ req'[r].error = e
                  /\ req'[r].status = MapError(e)]_vars
    /\ \A r \in Reqs : InLoop(r) ~> ~InLoop(r)

\* Both attempts failed, the second with a 403, and the response is 403.
C12_Witness ==
    \E r \in Reqs :
        /\ req[r].pc = "done"
        /\ req[r].getInfoCalls = maxRetries
        /\ req[r].retryCount = maxRetries
        /\ req[r].error.statusCode = 403
        /\ ~req[r].error.unavailable
        /\ req[r].status = 403

\* The backoff the resolution waits after its n-th failed attempt, in ms.
Waits(r, onRateLimit, otherwise) ==
    req[r].pc = "backoff" =>
        req[r].backoff = (IF req[r].error.statusCode = 429 THEN onRateLimit
                          ELSE otherwise) * req[r].retryCount

\* C13 as stated: in both deployment variants the backoff after failed attempt
\* n is 5000 ms * n for an upstream 429 and 2000 ms * n for any other failure.
C13_Claimed == \A r \in Reqs : Waits(r, 5000, 2000)

\* C13: the backoff after failed attempt n is 5000 ms * n (upstream 429) or
\* 2000 ms * n (other failure) in the express variant, and 3000 ms * n or
\* 1500 ms * n in the serverless variant; n is at least 1.
C13_BackoffPerVariant ==
    \A r \in Reqs :
        /\ req[r].pc = "backoff" => req[r].retryCount >= 1
        /\ variant = "express" => Waits(r, 5000, 2000)
        /\ variant = "serverless" => Waits(r, 3000, 1500)

\* The serverless handler backs off 1500 ms after a first failure that is
\* not a 429.
C13_Witness ==
    \E r \in Reqs :
        /\ variant = "serverless"
        /\ req[r].pc = "backoff"
        /\ req[r].retryCount = 1
        /\ req[r].error.statusCode = 403
        /\ req[r].backoff = 1500

\* The stream of request r emits 'error' in this step.
StreamFails(r) == req[r].stream = "open" /\ req'[r].stream = "errored"

\* C14: when the upstream stream emits 'error' and no header was sent, the
\* request is answered 500; when headers were already sent, the status the
\* client saw stays as it is and nothing more is sent.
C14_StreamErrorStatus ==
    [][\A r \in Reqs :
          StreamFails(r) =>
              IF req[r].headersSent
              THEN /\ req'[r].status = req[r].status
                   /\ req'[r].sends = req[r].sends
              ELSE /\ req'[r].status = 500
                   /\ req'[r].headersSent
                   /\ req'[r].sends = 1]_vars

\* The stream failed after the 200 and its headers had gone out.
C14_Witness ==
    \E r \in Reqs :
        /\ req[r].stream = "errored"
        /\ req[r].pc = "streaming"
        /\ req[r].status = 200
        /\ req[r].sends = 1

\* C18: every request receives at most one HTTP response status: a status or
\* a body is written at most once per request, the headers are out exactly
\* when that happened, and once they are out the status the client saw is
\* never replaced.
C18_OneResponse ==
    [][\A r \in Reqs :
          /\ req'[r].sends <= 1
          /\ req'[r].headersSent <=> req'[r].sends = 1
          /\ req'[r].headersSent <=> req'[r].status # 0
          /\ (req[r].headersSent /\ req'[r].pc # "idle") =>
                 /\ req'[r].status = req[r].status
                 /\ req'[r].sends = req[r].sends]_vars

\* The stream failed before any header: the one response is the 500 of the
\* stream's error listener.
C18_Witness ==
    \E r \in Reqs :
        /\ req[r].stream = "errored"
        /\ req[r].pc = "done"
        /\ req[r].status = 500
        /\ req[r].sends = 1

\* C15 as stated: whenever the format list holds a combined audio+video
\* format, a combined format is selected, an mp4 one if there is one, of the
\* highest video quality among those; only a list without a combined format
\* falls back to the highest format of any kind.
C15_Claimed ==
    stage = 1 =>
        IF FilterFormats(formats) # {}
        THEN /\ chosen # {}
             /\ \A f \in chosen :
                   /\ f \in formats
                   /\ Combined(f)
                   /\ (\E g \in formats : OptionsFilter(g)) => f.container = "mp4"
        ELSE chosen = Best(formats)

\* The cleanup ran in this step: the map changed and no request arrived.
SweepStep == requestTracker' # requestTracker /\ req' = req

\* C16: the periodic cleanup, which only the long-lived express process runs,
\* leaves for every client exactly its timestamps younger than 60 s and no
\* key with an empty sequence; and admission does not see it: the recent part
\* of every client's sequence, and with it every admit/reject decision, is
\* that of a limiter that is never swept.
C16_SweepTransparent ==
    [][/\ SweepStep =>
              /\ variant = "express"
              /\ \A k \in Keys :
                    /\ MapGet(requestTracker', k)
                           = RecentRequests(MapGet(requestTracker, k), now)
                    /\ k \in DOMAIN requestTracker' <=>
                           RecentRequests(MapGet(requestTracker, k), now) # << >>
       /\ \A k \in Keys :
              RecentRequests(MapGet(requestTracker', k), now')
                  = RecentRequests(solo'[k], now')
       /\ \A r \in DOMAIN req :
              (Arrived(r) /\ req'[r].admit # "-") =>
                  (req'[r].admit = "no" <=>
                       RateLimited(RecentRequests(solo[req'[r].key], now)))]_vars

\* The cleanup deleted client A's key, which had held a full window, and
\* trimmed client B's sequence.
C16_Witness ==
    /\ "A" \notin DOMAIN requestTracker
    /\ Len(solo["A"]) = MAX_REQUESTS_PER_IP
    /\ "B" \in DOMAIN requestTracker
    /\ Len(requestTracker["B"]) < Len(solo["B"])

\* The sequence is in non-decreasing order.
NonDecreasing(s) == \A i \in 1..Len(s) - 1 : s[i] <= s[i + 1]

\* The handler stored the sequence of key k in this step.
Stored(k) ==
    /\ \E r \in DOMAIN req : Arrived(r) /\ req'[r].key = k
    /\ requestTracker' # requestTracker

\* C17: every sequence stored in requestTracker is non-empty, holds at most 5
\* timestamps and is in non-decreasing order; and at the moment the handler
\* stores a sequence, all its timestamps are less than 60 s old.
C17_TrackerShape ==
    [][\A k \in DOMAIN requestTracker' :
          LET s == requestTracker'[k]
          IN  /\ Len(s) >= 1
              /\ Len(s) <= MAX_REQUESTS_PER_IP
              /\ NonDecreasing(s)
              /\ Stored(k) =>
                     \A i \in 1..Len(s) : now' - s[i] < RATE_LIMIT_WINDOW]_vars

\* A stored sequence of 5 timestamps taken at different times, the oldest of
\* which has meanwhile left the window.
C17_Witness ==
    \E k \in DOMAIN requestTracker :
        LET s == requestTracker[k]
        IN  /\ Len(s) = MAX_REQUESTS_PER_IP
            /\ s[1] < s[5]
            /\ now - s[1] >= RATE_LIMIT_WINDOW

\* C19 as stated: if the client connection closes at any point, the time of
\* the resolution before the 'close' listener is registered included, no
\* upstream stream created for the request stays open forever: it is
\* eventually ended, errored or destroyed.
C19_Claimed ==
    \A r \in Reqs :
        [](req[r].closed /\ req[r].stream = "open" =>
               <>(req[r].stream # "open" \/ req[r].destroyed))

====
